---- MODULE Spec2Model ----
(***************************************************************************)
(* Model of contas_viradas (src/contas_viradas/contas_viradas.py): the     *)
(* Streamlit page that reads a trial-balance HTML export, extracts the     *)
(* account rows (parse_balancete_html) and marks the flipped accounts      *)
(* (marcar_contas_viradas).                                                *)
(*                                                                         *)
(* Python strings that the code inspects character by character (cell      *)
(* texts, classification, description, balance indicator) are sequences    *)
(* of one-character strings; strings the code only assigns and compares    *)
(* as a whole (Motivo, Virada, Avaliar) are TLA+ strings.  A float is the  *)
(* integer number of 10^-MaxLen units it holds (every amount text of the   *)
(* model has at most MaxLen digits after the decimal point).  The header   *)
(* columns Empresa/CNPJ/Periodo are copied onto the records and read by no *)
(* rule; they are left out of the records.                                 *)
(***************************************************************************)
EXTENDS Integers, Sequences, FiniteSets, TLC

VARIABLES pc, content, html_content, soup_rows, data_rows, df

vars == <<pc, content, html_content, soup_rows, data_rows, df>>

(* ------------------------------ bounds -------------------------------- *)
\* longest amount text of a balance cell that the model enumerates
MaxLen == 4
\* most <tr> rows of a document built from RowSet
MaxRows == 2
\* most bytes of an uploaded file whose decoding is explored
MaxBytes == 2

(* ------------------------- program constants -------------------------- *)
\* len(cols_text) >= 10
MinCols == 10
\* range(4, min(len(cols_text), 12))
DescFrom == 4
DescTo == 12
\* cols_text[-5:]
TailLen == 5

(* --------------------------- str operations --------------------------- *)
Min(a, b) == IF a < b THEN a ELSE b

Max(a, b) == IF a < b THEN b ELSE a

Last(s) == s[Len(s)]

Front(s) == SubSeq(s, 1, Len(s) - 1)

\* str.startswith(p)
startswith(s, p) == Len(p) <= Len(s) /\ SubSeq(s, 1, Len(p)) = p

\* str.endswith(p)
endswith(s, p) == Len(p) <= Len(s) /\ SubSeq(s, Len(s) - Len(p) + 1, Len(s)) = p

\* Series.str.contains(r"\(-\)"): the literal text occurs at some position
contains(s, p) == \E i \in 1..(Len(s) - Len(p) + 1) : SubSeq(s, i, i + Len(p) - 1) = p

RECURSIVE lstrip(_)
lstrip(s) == IF s # <<>> /\ Head(s) = " " THEN lstrip(Tail(s)) ELSE s

RECURSIVE rstrip(_)
rstrip(s) == IF s # <<>> /\ Last(s) = " " THEN rstrip(Front(s)) ELSE s

\* str.strip()
strip(s) == rstrip(lstrip(s))

\* str.replace(old, new) for a one-character old
RECURSIVE replace(_, _, _)
replace(s, old, new) ==
  IF s = <<>> THEN <<>>
  ELSE (IF Head(s) = old THEN new ELSE <<Head(s)>>) \o replace(Tail(s), old, new)

(* ------------------------------- float() ------------------------------ *)
Digits == {"0", "1"}

DigitVal(c) == IF c = "1" THEN 1 ELSE 0

RECURSIVE Pow10(_)
Pow10(n) == IF n = 0 THEN 1 ELSE 10 * Pow10(n - 1)

\* value of a digit string, most significant digit first
RECURSIVE IntVal(_)
IntVal(s) == IF s = <<>> THEN 0 ELSE 10 * IntVal(Front(s)) + DigitVal(Last(s))

\* float(text): surrounding whitespace is dropped, then an optional sign and
\* a decimal number with at most one "." and at least one digit.  ok = FALSE
\* is ValueError.  value is in units of 10^-MaxLen.  The texts of the model
\* are written with AmountChars: none holds an exponent, an underscore,
\* "inf" or "nan", which float() would accept too.
float(text) ==
  LET t      == strip(text)
      signed == t # <<>> /\ Head(t) \in {"-", "+"}
      body   == IF signed THEN Tail(t) ELSE t
      dots   == {i \in 1..Len(body) : body[i] = "."}
      dot    == IF dots = {} THEN Len(body) + 1 ELSE CHOOSE i \in dots : TRUE
      int    == SubSeq(body, 1, dot - 1)
      frac   == SubSeq(body, dot + 1, Len(body))
      wellformed ==
        /\ Cardinality(dots) <= 1
        /\ \A i \in 1..Len(body) : body[i] \in Digits \cup {"."}
        /\ Len(int) + Len(frac) >= 1
        /\ Len(frac) <= MaxLen      \* holds of every text the model enumerates
      magnitude == IntVal(int) * Pow10(MaxLen) + IntVal(frac) * Pow10(MaxLen - Len(frac))
  IN  IF wellformed
      THEN [ok |-> TRUE, value |-> IF signed /\ Head(t) = "-" THEN 0 - magnitude ELSE magnitude]
      ELSE [ok |-> FALSE, value |-> 0]

(* ------------------------ bytes.decode('utf-8') ----------------------- *)
IsCont(b) == b >= 128 /\ b <= 191

\* the length of the well-formed UTF-8 sequence that starts at bytes[i],
\* 0 when there is none (invalid start byte, invalid or missing continuation)
SeqLenAt(bytes, i) ==
  LET b    == bytes[i]
      has(k) == i + k <= Len(bytes)
      c(k)   == bytes[i + k]
  IN  IF b < 128 THEN 1
      ELSE IF b >= 194 /\ b <= 223
        THEN (IF has(1) /\ IsCont(c(1)) THEN 2 ELSE 0)
      ELSE IF b >= 224 /\ b <= 239
        THEN (IF /\ has(2) /\ IsCont(c(1)) /\ IsCont(c(2))
                 /\ (b = 224 => c(1) >= 160)
                 /\ (b = 237 => c(1) <= 159)
              THEN 3 ELSE 0)
      ELSE IF b >= 240 /\ b <= 244
        THEN (IF /\ has(3) /\ IsCont(c(1)) /\ IsCont(c(2)) /\ IsCont(c(3))
                 /\ (b = 240 => c(1) >= 144)
                 /\ (b = 244 => c(1) <= 143)
              THEN 4 ELSE 0)
      ELSE 0

CodePoint(bytes, i, n) ==
  IF n = 1 THEN bytes[i]
  ELSE IF n = 2 THEN (bytes[i] - 192) * 64 + (bytes[i + 1] - 128)
  ELSE IF n = 3 THEN (bytes[i] - 224) * 4096 + (bytes[i + 1] - 128) * 64
                     + (bytes[i + 2] - 128)
  ELSE (bytes[i] - 240) * 262144 + (bytes[i + 1] - 128) * 4096
       + (bytes[i + 2] - 128) * 64 + (bytes[i + 3] - 128)

\* decode with errors='strict' (the default): ok = FALSE is UnicodeDecodeError
RECURSIVE decode_from(_, _)
decode_from(bytes, i) ==
  IF i > Len(bytes) THEN [ok |-> TRUE, text |-> <<>>]
  ELSE LET n == SeqLenAt(bytes, i)
       IN  IF n = 0 THEN [ok |-> FALSE, text |-> <<>>]
           ELSE LET rest == decode_from(bytes, i + n)
                IN  [ok |-> rest.ok,
                     text |-> IF rest.ok THEN <<CodePoint(bytes, i, n)>> \o rest.text
                              ELSE <<>>]

decode(bytes) == decode_from(bytes, 1)

(* ------------------------ parse_balancete_html ------------------------ *)
\* for i in range(4, min(len(cols_text), 12)): if cols_text[i]: ... break
\* (i is the 0-based Python index; None is the empty text, as emitted)
RECURSIVE scan_descricao(_, _)
scan_descricao(cols_text, i) ==
  IF i >= Min(Len(cols_text), DescTo) THEN <<>>
  ELSE IF cols_text[i + 1] # <<>> THEN cols_text[i + 1]
  ELSE scan_descricao(cols_text, i + 1)

descricao_of(cols_text) == scan_descricao(cols_text, DescFrom)

\* mutant: the slice is forgotten, every cell of the row is looked at
tail_of_all(cols_text) == cols_text

\* tail = cols_text[-5:]
tail_of(cols_text) == SubSeq(cols_text, Max(1, Len(cols_text) - TailLen + 1), Len(cols_text))

\* for item in reversed(tail): ... break   (k is the next position to look at)
RECURSIVE scan_saldo(_, _)
scan_saldo(tail, k) ==
  IF k = 0 THEN [valor |-> <<>>, indicador |-> <<>>]
  ELSE LET item == strip(tail[k])
       IN  IF endswith(item, <<"D">>) \/ endswith(item, <<"C">>)
           THEN [valor |-> strip(Front(item)), indicador |-> <<Last(item)>>]
           ELSE scan_saldo(tail, k - 1)

saldo_atual(cols_text) == scan_saldo(tail_of(cols_text), Len(tail_of(cols_text)))

\* clean_str = saldo_atual_valor.replace(".", "").replace(",", ".")
clean_str(saldo_atual_valor) == replace(replace(saldo_atual_valor, ".", <<>>), ",", <<".">>)

\* mutant: the magnitude of the parsed value is kept, its sign dropped
numeric_value_abs(saldo_atual_valor) ==
  IF saldo_atual_valor # <<>>
  THEN LET f == float(clean_str(saldo_atual_valor))
       IN  IF f.ok THEN (IF f.value < 0 THEN 0 - f.value ELSE f.value) ELSE 0
  ELSE 0

\* numeric_value: 0.0, or float(clean_str) when the text is non-empty and parses
numeric_value(saldo_atual_valor) ==
  IF saldo_atual_valor # <<>>
  THEN LET f == float(clean_str(saldo_atual_valor))
       IN  IF f.ok THEN f.value ELSE 0
  ELSE 0

\* mutant: > in place of >=
enough_cols_strict(cols_text) == Len(cols_text) > MinCols

\* if len(cols_text) >= 10
enough_cols(cols_text) == Len(cols_text) >= MinCols

\* the dict appended for a row
row_record(cols_text) ==
  [Codigo        |-> strip(cols_text[1]),
   Classificacao |-> strip(cols_text[3]),
   Descricao     |-> descricao_of(cols_text),
   Valor         |-> numeric_value(saldo_atual(cols_text).valor),
   DC            |-> saldo_atual(cols_text).indicador]

\* if codigo or descricao: data_rows.append(...)
keeps(cols_text) == strip(cols_text[1]) # <<>> \/ descricao_of(cols_text) # <<>>

\* the loop over rows that builds data_rows
RECURSIVE build_data_rows(_)
build_data_rows(rows) ==
  IF rows = <<>> THEN <<>>
  ELSE (IF enough_cols(Head(rows)) /\ keeps(Head(rows))
        THEN <<row_record(Head(rows))>> ELSE <<>>)
       \o build_data_rows(Tail(rows))

(* ------------------------ marcar_contas_viradas ----------------------- *)
Str1     == <<"1">>
Str2     == <<"2">>
Paren    == <<"(", "-", ")">>
Bloco3Dev  == { <<"3", ".", "1", ".", "1">>,
                <<"3", ".", "2", ".", "2", ".", "0", "3">>,
                <<"3", ".", "2", ".", "4">>,
                <<"3", ".", "2", ".", "5">> }
Bloco3Cred == { <<"3", ".", "1", ".", "2">>,
                <<"3", ".", "1", ".", "7">>,
                <<"3", ".", "2", ".", "2", ".", "0", "1">>,
                <<"3", ".", "2", ".", "3">> }

\* mutant: the assignment reaches every row as soon as one row matches
set_where_any(frame, mask, bool, virada, motivo, avaliar) ==
  [i \in 1..Len(frame) |->
     IF \E j \in 1..Len(frame) : mask[j]
     THEN [frame[i] EXCEPT !.ViradaBool = bool, !.Virada = virada,
                           !.Motivo = motivo, !.Avaliar = avaliar]
     ELSE frame[i]]

\* df.loc[cond, ...] = ... for the four verdict columns: mask is the boolean
\* Series cond, aligned with the frame by position
set_where(frame, mask, bool, virada, motivo, avaliar) ==
  [i \in 1..Len(frame) |->
     IF mask[i]
     THEN [frame[i] EXCEPT !.ViradaBool = bool, !.Virada = virada,
                           !.Motivo = motivo, !.Avaliar = avaliar]
     ELSE frame[i]]

\* df = df.copy() and the four default columns
step_cols(frame) ==
  [i \in 1..Len(frame) |->
     [Codigo        |-> frame[i].Codigo,
      Classificacao |-> frame[i].Classificacao,
      Descricao     |-> frame[i].Descricao,
      Valor         |-> frame[i].Valor,
      DC            |-> frame[i].DC,
      ViradaBool    |-> FALSE,
      Virada        |-> "Nao",
      Motivo        |-> "",
      Avaliar       |-> "Avaliar no detalhe"]]

cond_ativo_c(frame) ==
  [i \in 1..Len(frame) |->
     startswith(frame[i].Classificacao, Str1) /\ frame[i].DC = <<"C">>]

\* mutant: "not credit" in place of "debit"
cond_passivo_d_not_c(frame) ==
  [i \in 1..Len(frame) |->
     startswith(frame[i].Classificacao, Str2) /\ frame[i].DC # <<"C">>]

cond_passivo_d(frame) ==
  [i \in 1..Len(frame) |->
     startswith(frame[i].Classificacao, Str2) /\ frame[i].DC = <<"D">>]

\* mutant: the test of the balance side is missing
cond_bloco3_dev_any_side(frame) ==
  [i \in 1..Len(frame) |->
     /\ \E p \in Bloco3Dev : startswith(frame[i].Classificacao, p)
     /\ ~startswith(frame[i].Descricao, Paren)]

cond_bloco3_dev(frame) ==
  [i \in 1..Len(frame) |->
     /\ \E p \in Bloco3Dev : startswith(frame[i].Classificacao, p)
     /\ frame[i].DC = <<"D">>
     /\ ~startswith(frame[i].Descricao, Paren)]

cond_bloco3_cred(frame) ==
  [i \in 1..Len(frame) |->
     /\ \E p \in Bloco3Cred : startswith(frame[i].Classificacao, p)
     /\ frame[i].DC = <<"C">>
     /\ ~startswith(frame[i].Descricao, Paren)]

\* mutant: "(-)" is looked for at the start of the description only
cond_reverter_prefix(frame) ==
  [i \in 1..Len(frame) |->
     frame[i].ViradaBool = TRUE /\ startswith(frame[i].Descricao, Paren)]

cond_reverter(frame) ==
  [i \in 1..Len(frame) |->
     frame[i].ViradaBool = TRUE /\ contains(frame[i].Descricao, Paren)]

step_ativo(frame) ==
  set_where(frame, cond_ativo_c(frame), TRUE, "Sim", "Ativo (1) com saldo Credor (C)", "")

step_passivo(frame) ==
  set_where(frame, cond_passivo_d(frame), TRUE, "Sim", "Passivo (2) com saldo Devedor (D)", "")

step_bloco3_dev(frame) ==
  set_where(frame, cond_bloco3_dev(frame), TRUE, "Sim", "Bloco 3: Devedora", "")

step_bloco3_cred(frame) ==
  set_where(frame, cond_bloco3_cred(frame), TRUE, "Sim", "Bloco 3: Credora", "")

\* mutant: the reversal resets ViradaBool and Virada and leaves the reason
\* and the review flag as they were
step_reverter_partial(frame) ==
  [i \in 1..Len(frame) |->
     IF cond_reverter(frame)[i]
     THEN [frame[i] EXCEPT !.ViradaBool = FALSE, !.Virada = "Nao"]
     ELSE frame[i]]

step_reverter(frame) ==
  set_where(frame, cond_reverter(frame), FALSE, "Nao", "", "Avaliar no detalhe")

\* the whole function, first statement to return
marcar_contas_viradas(frame) ==
  step_reverter(step_bloco3_cred(step_bloco3_dev(step_passivo(step_ativo(step_cols(frame))))))

(* ------------------------------- inputs ------------------------------- *)
\* all sequences over S of length 0..n
RECURSIVE SeqsUpTo(_, _)
SeqsUpTo(S, n) ==
  IF n = 0 THEN {<<>>}
  ELSE LET shorter == SeqsUpTo(S, n - 1)
       IN  shorter \cup {Append(s, x) : s \in {t \in shorter : Len(t) = n - 1}, x \in S}

\* a <tr> of n <td> cells: codigo in cell 0, classif in cell 2, desc in cell
\* dpos, decoy in the cell dend places from the end, bal in the cell bend
\* places from the end (0 or -1: no such cell); every other cell is empty
mk_row(n, codigo, classif, dpos, desc, dend, decoy, bend, bal) ==
  [i \in 1..n |->
     IF bend > 0 /\ i = n - bend + 1 THEN bal
     ELSE IF dend > 0 /\ i = n - dend + 1 THEN decoy
     ELSE IF i = dpos + 1 THEN desc
     ELSE IF i = 3 THEN classif
     ELSE IF i = 1 THEN codigo
     ELSE <<>>]

AmountChars == {"0", "1", ".", ",", "-", " ", "x"}

\* the amount part of a balance cell; the cell text comes from
\* get_text(strip=True), so it does not start with a blank
AmountTexts == {a \in SeqsUpTo(AmountChars, MaxLen) : a = <<>> \/ Head(a) # " "}

ClassSet ==
  { <<>>, <<"1">>, <<"1", ".", "2", ".", "3">>, <<"1", "3">>,
    <<"2">>, <<"2", ".", "1", ".", "1">>,
    <<"3">>, <<"3", ".", "1">>, <<"3", ".", "1", "1">>,
    <<"3", ".", "1", ".", "1">>, <<"3", ".", "1", ".", "1", ".", "0", "5">>,
    <<"3", ".", "1", ".", "1", "0">>,
    <<"3", ".", "1", ".", "2">>, <<"3", ".", "1", ".", "7">>,
    <<"3", ".", "2", ".", "2">>, <<"3", ".", "2", ".", "2", ".", "0", "1">>,
    <<"3", ".", "2", ".", "2", ".", "0", "2">>,
    <<"3", ".", "2", ".", "2", ".", "0", "3">>,
    <<"3", ".", "2", ".", "3">>, <<"3", ".", "2", ".", "4">>,
    <<"3", ".", "2", ".", "5">>, <<"3", ".", "2", ".", "5", "1">>,
    <<"4">>, <<"1", "1">>, <<"0", "1">> }

DescSet ==
  { <<>>, <<"C", "x">>, <<"(", "-", ")", " ", "A">>, <<"A", " ", "(", "-", ")">>,
    <<"A", "(", "-", ")", "B">>, <<"(", "-">>, <<"(", ")", "-">>, <<"-", "(", "-", ")">> }

SaldoSet == { <<>>, <<"1", ",", "0", "D">>, <<"1", ",", "0", "C">> }

Cod == <<"7">>

\* rows that vary the amount text of the balance cell
AmountRows ==
  { mk_row(MinCols, Cod, <<"1">>, DescFrom, <<"C", "x">>, 0, <<>>, 1, a \o <<"D">>)
      : a \in AmountTexts }

\* rows that vary classification, balance side and description
ClassRows ==
  { mk_row(DescTo, Cod, c, DescFrom, d, 0, <<>>, 1, b)
      : c \in ClassSet, d \in DescSet, b \in SaldoSet }

\* rows that vary the number of cells and the places of the code, the
\* description and of two cells that end in "D" / "C"
StructRows ==
  { mk_row(n, k, <<"2">>, dpos, <<"A">>, dend, <<"9", "C">>, bend, <<"1", " ", "D">>)
      : n \in {TailLen - 1, MinCols - 1, MinCols, DescTo, DescTo + 1},
        k \in {<<>>, Cod},
        dpos \in {-1, DescFrom, DescTo - 1, DescTo},
        dend \in {0, 1, TailLen + 1},
        bend \in {0, 2, TailLen, TailLen + 1} }

\* rows that documents of several rows are built from
RowSet ==
  { mk_row(TailLen - 1, Cod, <<"1">>, 1, <<"A">>, 0, <<>>, 1, <<"1", "C">>),
    mk_row(DescTo + 1, <<>>, <<"1">>, -1, <<>>, 0, <<>>, 1, <<"1", "C">>),
    mk_row(MinCols, Cod, <<"1">>, DescFrom, <<"C", "x">>, 0, <<>>, 1, <<"1", "C">>),
    mk_row(MinCols, Cod, <<"1">>, DescFrom, <<"A", "(", "-", ")">>, 0, <<>>, 1, <<"1", "C">>),
    mk_row(MinCols, Cod, <<"3", ".", "1", ".", "1">>, DescFrom, <<"A", "(", "-", ")">>,
           0, <<>>, 1, <<"1", "D">>),
    mk_row(MinCols, Cod, <<"2">>, DescFrom, <<"C", "x">>, 0, <<>>, 0, <<>>) }

Docs ==
  {<<r>> : r \in AmountRows \cup ClassRows \cup StructRows}
    \cup SeqsUpTo(RowSet, MaxRows)

\* byte values: "<", the two bytes of U+00E7, and a byte no UTF-8 text holds
ByteSet == {60, 195, 167, 255}

SampleBytes == <<60>>

SampleDoc ==
  << mk_row(MinCols, Cod, <<"1">>, DescFrom, <<"C", "x">>, 0, <<>>, 1, <<"1", "C">>) >>

(* ------------------------------- main() ------------------------------- *)
\* st.file_uploader returned a file: content is uploaded_file.read() and
\* soup_rows the <td> texts of each <tr> that BeautifulSoup finds in it
Init ==
  /\ pc = "upload"
  /\ \/ content \in SeqsUpTo(ByteSet, MaxBytes) /\ soup_rows = SampleDoc
     \/ content = SampleBytes /\ soup_rows \in Docs
  /\ html_content = <<>>
  /\ data_rows = <<>>
  /\ df = <<>>

\* html_content = uploaded_file.read().decode('utf-8')
Decode ==
  /\ pc = "upload"
  /\ LET r == decode(content)
     IN  IF r.ok
         THEN html_content' = r.text /\ pc' = "decoded"
         ELSE html_content' = html_content /\ pc' = "UnicodeDecodeError"
  /\ UNCHANGED <<content, soup_rows, data_rows, df>>

\* df = parse_balancete_html(html_content): the row loop, pd.DataFrame(data_rows)
\* and df['Descricao'].fillna(""), which raises KeyError on a frame without columns
Parse ==
  /\ pc = "decoded"
  /\ data_rows' = build_data_rows(soup_rows)
  /\ IF data_rows' = <<>>
     THEN df' = df /\ pc' = "KeyError"
     ELSE df' = data_rows' /\ pc' = "parsed"
  /\ UNCHANGED <<content, html_content, soup_rows>>

\* marcar_contas_viradas, statement group by statement group
MarcarCols ==
  /\ pc = "parsed"
  /\ df' = step_cols(df)
  /\ pc' = "cols"
  /\ UNCHANGED <<content, html_content, soup_rows, data_rows>>

MarcarAtivo ==
  /\ pc = "cols"
  /\ df' = step_ativo(df)
  /\ pc' = "ativo"
  /\ UNCHANGED <<content, html_content, soup_rows, data_rows>>

MarcarPassivo ==
  /\ pc = "ativo"
  /\ df' = step_passivo(df)
  /\ pc' = "passivo"
  /\ UNCHANGED <<content, html_content, soup_rows, data_rows>>

MarcarBloco3Dev ==
  /\ pc = "passivo"
  /\ df' = step_bloco3_dev(df)
  /\ pc' = "bloco3_dev"
  /\ UNCHANGED <<content, html_content, soup_rows, data_rows>>

MarcarBloco3Cred ==
  /\ pc = "bloco3_dev"
  /\ df' = step_bloco3_cred(df)
  /\ pc' = "bloco3_cred"
  /\ UNCHANGED <<content, html_content, soup_rows, data_rows>>

MarcarReverter ==
  /\ pc = "bloco3_cred"
  /\ df' = step_reverter(df)
  /\ pc' = "marked"
  /\ UNCHANGED <<content, html_content, soup_rows, data_rows>>

total_viradas == Cardinality({i \in 1..Len(df) : df[i].ViradaBool = TRUE})

\* if df.empty: st.warning(...); return -- else the st.error / st.success banner
Report ==
  /\ pc = "marked"
  /\ pc' = IF df = <<>> THEN "st.warning"
           ELSE IF total_viradas > 0 THEN "st.error" ELSE "st.success"
  /\ UNCHANGED <<content, html_content, soup_rows, data_rows, df>>

Next ==
  \/ Decode
  \/ Parse
  \/ MarcarCols
  \/ MarcarAtivo
  \/ MarcarPassivo
  \/ MarcarBloco3Dev
  \/ MarcarBloco3Cred
  \/ MarcarReverter
  \/ Report

Spec == Init /\ [][Next]_vars

(* ====================================================================== *)
(* Properties                                                             *)
(* ====================================================================== *)
\* the row loop has run
Parsed == pc \notin {"upload", "decoded", "UnicodeDecodeError"}

\* the frame carries the verdict columns
HasCols == pc \in {"cols", "ativo", "passivo", "bloco3_dev", "bloco3_cred",
                   "marked", "st.warning", "st.error", "st.success"}

\* marcar_contas_viradas has returned
Marked == pc \in {"marked", "st.warning", "st.error", "st.success"}

\* main has ended, normally or in an exception
Ended == pc \in {"UnicodeDecodeError", "KeyError", "st.warning", "st.error", "st.success"}

\* the text holds "(-)" at some position
HasContra(d) == \E k \in 1..(Len(d) - 2) : d[k] = "(" /\ d[k + 1] = "-" /\ d[k + 2] = ")"

\* the text begins with the characters of p
Begins(c, p) == Len(c) >= Len(p) /\ \A k \in 1..Len(p) : c[k] = p[k]

NeedsReview(rec) ==
  rec.ViradaBool = FALSE /\ rec.Motivo = "" /\ rec.Avaliar = "Avaliar no detalhe"

Verdict(rec) == <<rec.ViradaBool, rec.Virada, rec.Motivo, rec.Avaliar>>

\* a row that is to be emitted: 10 or more cells, and a code or a description
\* in cells 4..11 (cell texts arrive trimmed)
RefQualifies(r) ==
  /\ Len(r) >= 10
  /\ \/ r[1] # <<>>
     \/ \E k \in 5..12 : k <= Len(r) /\ r[k] # <<>>

RefKept(rows) == SelectSeq(rows, RefQualifies)

\* the description of a row: the first non-empty cell among cells 4..11
RefDesc(r) ==
  LET cand == {k \in 5..12 : k <= Len(r) /\ r[k] # <<>>}
  IN  IF cand = {} THEN <<>>
      ELSE r[CHOOSE k \in cand : \A m \in cand : k <= m]

\* the positions among the last 5 cells whose text ends in "D" or "C"
RefBalanceCells(r) ==
  {k \in 1..Len(r) : /\ k > Len(r) - 5
                     /\ r[k] # <<>>
                     /\ r[k][Len(r[k])] \in {"D", "C"}}

\* the rightmost of them
RefBalanceCell(r) ==
  r[CHOOSE k \in RefBalanceCells(r) : \A m \in RefBalanceCells(r) : m <= k]

\* its text without the side letter, trimmed
RefAmount(r) == strip(Front(RefBalanceCell(r)))

\* C1: every record whose description holds "(-)" at any position leaves
\* marcar_contas_viradas not flipped, with an empty reason and the
\* "Avaliar no detalhe" flag, whatever its classification and balance side.
C1_RuleDWins ==
  Marked => \A i \in 1..Len(df) : HasContra(df[i].Descricao) => NeedsReview(df[i])

\* an asset account with a credit balance whose description holds "(-)"
\* after its first character: rule A flipped it and rule D took it back
C1_Witness ==
  /\ pc = "marked"
  /\ \E i \in 1..Len(df) :
       /\ HasContra(df[i].Descricao) /\ df[i].Descricao[1] # "("
       /\ Begins(df[i].Classificacao, <<"1">>) /\ df[i].DC = <<"C">>

\* C2: the balance side of a record is "D", "C" or empty, and a record with
\* an empty side is never flipped: at every step of the cascade and in the
\* output it has ViradaBool false, an empty reason and the review flag.
C2_UnknownSideNeverFlipped ==
  HasCols => \A i \in 1..Len(df) :
    /\ df[i].DC \in {<<>>, <<"D">>, <<"C">>}
    /\ df[i].DC = <<>> => NeedsReview(df[i])

\* a liability account (classification starts with "2") without a side
C2_Witness ==
  /\ pc = "marked"
  /\ \E i \in 1..Len(df) : df[i].DC = <<>> /\ Begins(df[i].Classificacao, <<"2">>)

\* C3: a document without a qualifying row ends in the "no account data
\* found" warning of main, never in an exception, and yields no record.
C3_EmptyDocumentWarns ==
  (Ended /\ pc # "UnicodeDecodeError" /\ RefKept(soup_rows) = <<>>)
    => (pc = "st.warning" /\ df = <<>>)

\* C4 (as claimed): the value of every emitted record is 0.0 when no balance
\* cell was found or the amount text does not parse, otherwise the value of
\* the amount text, and it is never below zero.
C4_ValueNonNegative ==
  Parsed => \A i \in 1..Len(data_rows) :
    LET r == RefKept(soup_rows)[i]
        v == data_rows[i].Valor
    IN  /\ RefBalanceCells(r) = {} => v = 0
        /\ RefBalanceCells(r) # {} =>
             LET f == float(clean_str(RefAmount(r)))
             IN  v = IF f.ok THEN f.value ELSE 0
        /\ v >= 0

\* the amount text is a minus sign and digits with at most one "," between
\* them, one of the digits not 0
NegativeAmount(a) ==
  /\ Len(a) >= 2 /\ a[1] = "-"
  /\ \A k \in 2..Len(a) : a[k] \in {"0", "1", ","}
  /\ Cardinality({k \in 2..Len(a) : a[k] = ","}) <= 1
  /\ \E k \in 2..Len(a) : a[k] = "1"

\* C4 (amended): the value is 0.0 when no balance cell was found or the
\* amount text does not parse, otherwise the value of the amount text with
\* its sign: never below zero when the amount text holds no minus sign, and
\* below zero for a minus sign followed by a non-zero number.
C4_ValueKeepsSign ==
  Parsed => \A i \in 1..Len(data_rows) :
    LET r == RefKept(soup_rows)[i]
        v == data_rows[i].Valor
    IN  /\ RefBalanceCells(r) = {} => v = 0
        /\ RefBalanceCells(r) # {} =>
             LET a == RefAmount(r)
                 f == float(clean_str(a))
             IN  /\ v = IF f.ok THEN f.value ELSE 0
                 /\ (\A k \in 1..Len(a) : a[k] # "-") => v >= 0
                 /\ NegativeAmount(a) => v < 0

\* a record whose amount text is "-1,": its value is below zero
C4_Witness ==
  /\ pc = "parsed"
  /\ Len(soup_rows) = 1 /\ Len(data_rows) = 1
  /\ RefBalanceCells(soup_rows[1]) # {}
  /\ RefAmount(soup_rows[1]) = <<"-", "1", ",">>
  /\ data_rows[1].Valor < 0

\* C5: the records are, in document order, the rows with 10 or more cells
\* and a non-empty code or description; the frame that is classified holds
\* the same records.
C5_KeptRows ==
  Parsed =>
    LET kept == RefKept(soup_rows)
    IN  /\ Len(data_rows) = Len(kept)
        /\ \A i \in 1..Len(data_rows) :
             /\ data_rows[i].Codigo = kept[i][1]
             /\ data_rows[i].Classificacao = kept[i][3]
             /\ data_rows[i].Descricao = RefDesc(kept[i])
        /\ pc # "KeyError" =>
             /\ Len(df) = Len(data_rows)
             /\ \A i \in 1..Len(df) :
                  /\ df[i].Codigo = data_rows[i].Codigo
                  /\ df[i].Descricao = data_rows[i].Descricao

\* a document of two rows of 10 or more cells: the first without code and
\* description is dropped, the second is emitted
C5_Witness ==
  /\ pc = "parsed"
  /\ Len(soup_rows) = 2 /\ Len(data_rows) = 1
  /\ Len(soup_rows[1]) >= 10 /\ Len(soup_rows[2]) >= 10
  /\ ~RefQualifies(soup_rows[1])

\* C6: the output has the length and order of the input, the verdict of a
\* record is the verdict the function gives the record alone, equal records
\* get equal verdicts, and classifying the input or the output again gives
\* the same frame.
C6_RecordwiseAndDeterministic ==
  Marked =>
    /\ Len(df) = Len(data_rows)
    /\ \A i \in 1..Len(df) :
         /\ df[i].Codigo = data_rows[i].Codigo
         /\ df[i].Classificacao = data_rows[i].Classificacao
         /\ df[i].Descricao = data_rows[i].Descricao
         /\ df[i].Valor = data_rows[i].Valor
         /\ df[i].DC = data_rows[i].DC
         /\ Verdict(df[i]) = Verdict(marcar_contas_viradas(<<data_rows[i]>>)[1])
    /\ \A i, j \in 1..Len(df) :
         ( /\ df[i].Classificacao = df[j].Classificacao
           /\ df[i].DC = df[j].DC
           /\ df[i].Descricao = df[j].Descricao ) => Verdict(df[i]) = Verdict(df[j])
    /\ marcar_contas_viradas(data_rows) = df
    /\ marcar_contas_viradas(df) = df

\* a frame of two records, the first flipped and the second not
C6_Witness ==
  /\ pc = "marked"
  /\ Len(df) = 2
  /\ df[1].ViradaBool = TRUE /\ df[2].ViradaBool = FALSE

\* C7: decoding the uploaded bytes never ends in a decoding error.
C7_DecodeNeverFatal == pc # "UnicodeDecodeError"

\* C8: the balance cell is the rightmost of the last 5 cells that ends in
\* "D" or "C"; its last letter is the side and the rest the amount; the side
\* is empty exactly when there is no such cell, and then the value is 0.0.
C8_BalanceCell ==
  Parsed => \A i \in 1..Len(data_rows) :
    LET r == RefKept(soup_rows)[i]
        t == RefBalanceCell(r)
    IN  /\ data_rows[i].DC = <<>> <=> RefBalanceCells(r) = {}
        /\ RefBalanceCells(r) = {} => data_rows[i].Valor = 0
        /\ RefBalanceCells(r) # {} =>
             /\ data_rows[i].DC = <<t[Len(t)]>>
             /\ data_rows[i].Valor = numeric_value(RefAmount(r))

\* a row with a cell ending in "C" before the last 5 cells and a cell ending
\* in "D" that is second to last: the side is "D"
C8_Witness ==
  /\ pc = "parsed"
  /\ Len(soup_rows) = 1 /\ Len(data_rows) = 1
  /\ LET r == soup_rows[1]
     IN  /\ \E k \in 1..(Len(r) - 5) : r[k] # <<>> /\ r[k][Len(r[k])] = "C"
         /\ RefBalanceCells(r) = {Len(r) - 1}
  /\ data_rows[1].DC = <<"D">>

\* C9: after every step of the cascade a record is flipped exactly when its
\* reason is non-empty and exactly when its review flag is empty, Virada is
\* "Sim" exactly when it is flipped, and the reason is one of the fixed texts.
C9_ColumnsAgree ==
  HasCols => \A i \in 1..Len(df) :
    /\ df[i].ViradaBool \in BOOLEAN
    /\ df[i].ViradaBool <=> df[i].Motivo # ""
    /\ df[i].ViradaBool <=> df[i].Avaliar = ""
    /\ df[i].ViradaBool <=> df[i].Virada = "Sim"
    /\ df[i].Virada \in {"Sim", "Nao"}
    /\ df[i].Avaliar \in {"", "Avaliar no detalhe"}
    /\ df[i].Motivo \in {"", "Ativo (1) com saldo Credor (C)",
                         "Passivo (2) com saldo Devedor (D)",
                         "Bloco 3: Devedora", "Bloco 3: Credora"}

\* in the middle of the cascade: a record that rule C has flipped and that
\* rule D is about to take back
C9_Witness ==
  /\ pc = "bloco3_cred"
  /\ \E i \in 1..Len(df) :
       df[i].Motivo = "Bloco 3: Devedora" /\ HasContra(df[i].Descricao)

RuleA(rec) == Begins(rec.Classificacao, <<"1">>) /\ rec.DC = <<"C">>

RuleB(rec) == Begins(rec.Classificacao, <<"2">>) /\ rec.DC = <<"D">>

RuleCDev(rec) ==
  /\ \/ Begins(rec.Classificacao, <<"3", ".", "1", ".", "1">>)
     \/ Begins(rec.Classificacao, <<"3", ".", "2", ".", "2", ".", "0", "3">>)
     \/ Begins(rec.Classificacao, <<"3", ".", "2", ".", "4">>)
     \/ Begins(rec.Classificacao, <<"3", ".", "2", ".", "5">>)
  /\ rec.DC = <<"D">>

RuleCCred(rec) ==
  /\ \/ Begins(rec.Classificacao, <<"3", ".", "1", ".", "2">>)
     \/ Begins(rec.Classificacao, <<"3", ".", "1", ".", "7">>)
     \/ Begins(rec.Classificacao, <<"3", ".", "2", ".", "2", ".", "0", "1">>)
     \/ Begins(rec.Classificacao, <<"3", ".", "2", ".", "3">>)
  /\ rec.DC = <<"C">>

Matches(rec) ==
  (IF RuleA(rec) THEN 1 ELSE 0) + (IF RuleB(rec) THEN 1 ELSE 0)
    + (IF RuleCDev(rec) THEN 1 ELSE 0) + (IF RuleCCred(rec) THEN 1 ELSE 0)

\* C10: a record ends flipped exactly when its description holds no "(-)"
\* and one of the four rules (stated without the prefix test on the
\* description) matches it; no record matches two rules, and the reason of a
\* flipped record is the reason of the rule that matches it.
C10_SinglePass ==
  Marked => \A i \in 1..Len(df) :
    /\ Matches(df[i]) <= 1
    /\ df[i].ViradaBool <=> (~HasContra(df[i].Descricao) /\ Matches(df[i]) = 1)
    /\ df[i].ViradaBool =>
         df[i].Motivo = IF RuleA(df[i]) THEN "Ativo (1) com saldo Credor (C)"
                        ELSE IF RuleB(df[i]) THEN "Passivo (2) com saldo Devedor (D)"
                        ELSE IF RuleCDev(df[i]) THEN "Bloco 3: Devedora"
                        ELSE "Bloco 3: Credora"

\* a record of block 3 with a credit balance that ends flipped
C10_Witness ==
  /\ pc = "marked"
  /\ \E i \in 1..Len(df) :
       /\ df[i].ViradaBool = TRUE
       /\ df[i].Motivo = "Bloco 3: Credora"
       /\ Begins(df[i].Classificacao, <<"3", ".", "2", ".", "2", ".", "0", "1">>)

====
